---- MODULE Spec2Model ----
(***************************************************************************)
(* HashGlobWatcher (crates/turborepo-lib/src/globwatcher/mod.rs).          *)
(*                                                                         *)
(* State: the two maps hash_globs and glob_status, the Option holding the  *)
(* GlobWatcher, the event stream of the Event Source, the watch task's     *)
(* position and locals, and the position and locals of each caller task    *)
(* running watch_globs or changed_globs.                                   *)
(*                                                                         *)
(* Hashes, glob patterns and repo-relative paths are all Rust Strings, so  *)
(* the model draws them from one universe Str: nothing in the code keeps a *)
(* hash from being used as a pattern or a pattern as a map key.            *)
(***************************************************************************)
EXTENDS Integers, Sequences, FiniteSets, TLC

\* ------------------------------------------------------------------ bounds
MaxBatches == 1   \* change batches the Event Source observes in a run
MaxCalls   == 2   \* watch_globs and changed_globs calls started in a run
MaxPaths   == 1   \* paths in one change batch

\* ---------------------------------------------------------------- strings
Str == {"h1", "a/*", "a/b", "a/c"}

\* The characters of each string of the universe.
Chars(s) ==
    CASE s = "h1"  -> <<"h", "1">>
      [] s = "a/*" -> <<"a", "/", "*">>
      [] s = "a/b" -> <<"a", "/", "b">>
      [] s = "a/c" -> <<"a", "/", "c">>

\* glob_match::glob_match on character sequences: a literal character matches
\* itself, "*" matches any run of characters other than the path separator.
RECURSIVE MatchChars(_, _)
MatchChars(p, s) ==
    IF p = << >> THEN s = << >>
    ELSE IF Head(p) = "*"
         THEN \/ MatchChars(Tail(p), s)
              \/ /\ s # << >>
                 /\ Head(s) # "/"
                 /\ MatchChars(p, Tail(s))
         ELSE /\ s # << >>
              /\ Head(s) = Head(p)
              /\ MatchChars(Tail(p), Tail(s))

glob_match(glob, path) == MatchChars(Chars(glob), Chars(path))

\* ------------------------------------------------------------------ inputs
RootFolder == "/repo"

\* Absolute paths reported by the Event Source: a base folder and the rest.
AbsPaths ==
    << [base |-> "/repo", rel |-> "a/b"],
       [base |-> "/repo", rel |-> "a/c"],
       [base |-> "/tmp",  rel |-> "a/b"] >>

\* event.paths is a Vec<PathBuf>: up to MaxPaths different paths, in the
\* order of AbsPaths.
Batches ==
    { [i \in DOMAIN ix |-> AbsPaths[ix[i]]] :
        ix \in { s \in UNION { [1..n -> DOMAIN AbsPaths] : n \in 1..MaxPaths } :
                    \A i, j \in DOMAIN s : i < j => s[i] < s[j] } }

\* A path that is not valid UTF-8: Path::to_str gives None for it.
NonUtf8 == "a/<FF>"

\* path.to_str().is_some()
IsUtf8(path) == path # NonUtf8

\* The absolute paths, with one under the root that is not valid UTF-8.
AllPaths == AbsPaths \o << [base |-> "/repo", rel |-> NonUtf8] >>

\* The batches of up to MaxPaths paths that hold the path that is not UTF-8.
RawBatches ==
    { [i \in DOMAIN ix |-> AllPaths[ix[i]]] :
        ix \in { s \in UNION { [1..n -> DOMAIN AllPaths] : n \in 1..MaxPaths } :
                    /\ \A i, j \in DOMAIN s : i < j => s[i] < s[j]
                    /\ \E i \in DOMAIN s : s[i] = Len(AllPaths) } }

HashIds      == {"h1", "a/*"}
IncludeSets  == {{}, {"a/*"}, {"h1", "a/*"}}
ExcludeSets  == {{}, {"a/b"}}
CandidateSets == {{"a/*"}, {"h1", "a/*"}}

\* The caller tasks: one registers hashes, the other queries them.
Registrar == "t1"
Querier   == "t2"
Callers   == {Registrar, Querier}

\* ------------------------------------------------------------------- state
VARIABLES
    hash_globs,     \* HashMap<String, Glob>: partial function on Str
    glob_status,    \* HashMap<String, HashSet<String>>: partial function on Str
    watcher,        \* Option<GlobWatcher>: TRUE while it is Some
    stream,         \* items of the event stream not yet yielded by next()
    stopped,        \* the StopToken has been triggered
    subscribed,     \* patterns the Event Source currently includes
    status_lock,    \* holder of the glob_status mutex, or "free"
    hash_lock,      \* holder of the hash_globs mutex, or "free"
    lpc,            \* position of the watch task
    lpc2,           \* position of a second call of watch
    start_globs,    \* watch: globs still to include at startup
    event,          \* watch: the event being processed
    exclude_globs,  \* watch: the Vec of globs still to exclude
    call,           \* per caller task: the call in progress and its locals
    ncalls,         \* calls started so far
    observed,       \* batches observed by the Event Source so far
    processed,      \* batches whose index update is complete
    reg             \* history, per hash: the include set of its last
                    \* registration, and whether no batch has been
                    \* reconciled since (fresh)

vars == << hash_globs, glob_status, watcher, stream, stopped, subscribed,
           status_lock, hash_lock, lpc, lpc2, start_globs, event,
           exclude_globs, call, ncalls, observed, processed, reg >>

NoEvent == [kind |-> "none"]
Idle    == [op |-> "none", pc |-> "idle"]

\* ------------------------------------------------------------ map helpers
\* HashMap::default()
EmptyMap == [x \in {} |-> {}]
\* HashMap::remove
MapRemove(m, k) == [x \in DOMAIN m \ {k} |-> m[x]]
\* HashMap::insert
MapInsert(m, k, v) == [x \in DOMAIN m \cup {k} |-> IF x = k THEN v ELSE m[x]]

\* All orders in which a HashMap or HashSet may iterate over S.
Orders(S) ==
    { s \in [1..Cardinality(S) -> S] : \A i, j \in DOMAIN s : i # j => s[i] # s[j] }

\* ------------------------------------------------------------------- Init
Init ==
    /\ hash_globs = EmptyMap
    /\ glob_status = EmptyMap
    /\ watcher = TRUE
    /\ stream = << >>
    /\ stopped = FALSE
    /\ subscribed = {}
    /\ status_lock = "free"
    /\ hash_lock = "free"
    /\ lpc = "init"
    /\ lpc2 = "init"
    /\ start_globs = {}
    /\ event = NoEvent
    /\ exclude_globs = << >>
    /\ call = [c \in Callers |-> Idle]
    /\ ncalls = 0
    /\ observed = 0
    /\ processed = 0
    /\ reg = EmptyMap

\* ---------------------------------------------------- watch: one event
\* event.paths.iter().filter_map(|path| path.strip_prefix(&root_folder).ok())
RECURSIVE repo_relative_paths(_)
repo_relative_paths(paths) ==
    IF paths = << >> THEN << >>
    ELSE IF Head(paths).base = RootFolder
         THEN << Head(paths).rel >> \o repo_relative_paths(Tail(paths))
         ELSE repo_relative_paths(Tail(paths))

\* The exclude filter of lines 91-96 left out.
ExcludeMatches_Always(globs, path) == TRUE

\* globs.exclude.iter().any(|f| glob_match(f, path))
ExcludeMatches(globs, path) == \E f \in globs.exclude : glob_match(f, path)

\* The body of `for hash in hash_status.iter()` for one (glob, path) pair.
\* st = [hg, excl, clear]: hash_globs so far and the two Vecs.  The hashes
\* of one pair touch distinct entries of hash_globs and all push the same
\* glob, so the iteration order of the HashSet does not show in the result.
RECURSIVE ForHashes(_, _, _, _)
ForHashes(st, glob, path, hashes) ==
    IF hashes = {} THEN st
    ELSE LET hash == CHOOSE h \in hashes : TRUE
             rest == hashes \ {hash}
         IN  IF hash \in DOMAIN st.hg /\ ExcludeMatches(st.hg[hash], path)
             THEN LET include == st.hg[hash].include \ {glob}
                      hg == IF include = {}
                            THEN MapRemove(st.hg, hash)
                            ELSE [st.hg EXCEPT ![hash].include = include]
                  IN  ForHashes([hg    |-> hg,
                                 excl  |-> Append(st.excl, glob),
                                 clear |-> Append(st.clear, << hash, glob >>)],
                                glob, path, rest)
             ELSE ForHashes(st, glob, path, rest)

\* glob_status.iter().cartesian_product(paths).filter(glob_match(glob, path)):
\* the (glob, path) pairs in iteration order, `order` being the order in
\* which the HashMap yields its keys.
RECURSIVE MatchingPairs(_, _)
PairsOfGlob(glob, paths) ==
    SelectSeq([i \in DOMAIN paths |-> << glob, paths[i] >>],
              LAMBDA pr : glob_match(pr[1], pr[2]))
MatchingPairs(order, paths) ==
    IF order = << >> THEN << >>
    ELSE PairsOfGlob(Head(order), paths) \o MatchingPairs(Tail(order), paths)

\* The first for loop of the locked block (lines 83-111).
RECURSIVE ForPairs(_, _, _)
ForPairs(st, pairs, gs) ==
    IF pairs = << >> THEN st
    ELSE ForPairs(ForHashes(st, Head(pairs)[1], Head(pairs)[2], gs[Head(pairs)[1]]),
                  Tail(pairs), gs)

\* The second for loop of the locked block (lines 113-124).
RECURSIVE ClearGlobStatus(_, _)
ClearGlobStatus(gs, clear) ==
    IF clear = << >> THEN gs
    ELSE LET hash == Head(clear)[1]
             glob == Head(clear)[2]
         IN  IF hash \in DOMAIN gs
             THEN LET globs == gs[hash] \ {glob}
                  IN  ClearGlobStatus(IF globs = {} THEN MapRemove(gs, hash)
                                      ELSE [gs EXCEPT ![hash] = globs],
                                      Tail(clear))
             ELSE ClearGlobStatus(gs, Tail(clear))

\* The whole locked block for one event, for one iteration order of the keys
\* of glob_status: the new hash_globs, the new glob_status and exclude_globs.
ProcessEvent(hg, gs, paths, order) ==
    LET st == ForPairs([hg |-> hg, excl |-> << >>, clear |-> << >>],
                       MatchingPairs(order, repo_relative_paths(paths)), gs)
    IN  [hash_globs    |-> st.hg,
         glob_status   |-> ClearGlobStatus(gs, st.clear),
         exclude_globs |-> st.excl]

\* lines 87 and 95, path.to_str().unwrap(): the filter of line 86 is applied to
\* the pairs of the cartesian product in turn, so the task panics when the
\* product is not empty and some repo-relative path is not UTF-8.
Unwraps(order, paths) ==
    /\ order # << >>
    /\ \E i \in DOMAIN paths : ~ IsUtf8(paths[i])

\* The paths that come before the first one that is not UTF-8.
RECURSIVE BeforeNonUtf8(_)
BeforeNonUtf8(paths) ==
    IF paths = << >> \/ ~ IsUtf8(Head(paths)) THEN << >>
    ELSE << Head(paths) >> \o BeforeNonUtf8(Tail(paths))

\* The locked block up to the panic: the product is glob-major, so the pairs
\* handled are those of the first key with the paths before the bad one.  The
\* second for loop is never reached and glob_status stays as it was.
PanickedEvent(hg, gs, paths, order) ==
    LET st == ForPairs([hg |-> hg, excl |-> << >>, clear |-> << >>],
                       PairsOfGlob(Head(order),
                                   BeforeNonUtf8(repo_relative_paths(paths))), gs)
    IN  [hash_globs |-> st.hg, glob_status |-> gs, exclude_globs |-> << >>]

\* ------------------------------------------------------ the Event Source
\* The Event Source observes a change batch and queues it on the stream.
Observe(paths) ==
    /\ observed < MaxBatches
    /\ observed' = observed + 1
    /\ stream' = Append(stream, [kind |-> "event", paths |-> paths, id |-> observed + 1])
    /\ UNCHANGED << hash_globs, glob_status, watcher, stopped, subscribed,
                    status_lock, hash_lock, lpc, lpc2, start_globs, event,
                    exclude_globs, call, ncalls, processed, reg >>

\* The Event Source fails: the stream yields an error item, once.
ObserveError ==
    /\ lpc \notin {"returned", "panicked"}
    /\ \A i \in DOMAIN stream : stream[i].kind # "error"
    /\ stream' = Append(stream, [kind |-> "error"])
    /\ UNCHANGED << hash_globs, glob_status, watcher, stopped, subscribed,
                    status_lock, hash_lock, lpc, lpc2, start_globs, event,
                    exclude_globs, call, ncalls, observed, processed, reg >>

\* The StopToken is triggered: the stream yields nothing more.
Cancel ==
    /\ ~stopped
    /\ stopped' = TRUE
    /\ UNCHANGED << hash_globs, glob_status, watcher, stream, subscribed,
                    status_lock, hash_lock, lpc, lpc2, start_globs, event,
                    exclude_globs, call, ncalls, observed, processed, reg >>

\* GlobSender::flush: the request travels on the stream behind every batch
\* observed so far and completes when the stream is polled past it.
FlushRequest(c) == [kind |-> "flush", from |-> c]

\* The watch task has left watch and dropped the stream: every command sent
\* to the Event Source from now on fails, and so does a pending flush.
ServerStopped == lpc \in {"returned", "panicked"}

\* A caller task that has panicked, on a failed command or a poisoned mutex.
Panicked(c, why) == [op |-> call[c].op, pc |-> "panicked", why |-> why]

\* ------------------------------------------------------------------ watch
\* lines 46-52: collect the include globs of every tracked hash
WatchStart ==
    /\ lpc = "init"
    /\ hash_lock = "free"
    /\ start_globs' = UNION { hash_globs[h].include : h \in DOMAIN hash_globs }
    /\ lpc' = "take"
    /\ UNCHANGED << hash_globs, glob_status, watcher, stream, stopped, subscribed,
                    status_lock, hash_lock, lpc2, event, exclude_globs, call,
                    ncalls, observed, processed, reg >>

\* lines 54-60: take the watcher out of the Option, or return
WatchTake ==
    /\ lpc = "take"
    /\ IF watcher
       THEN watcher' = FALSE /\ lpc' = "start_include"
       ELSE watcher' = watcher /\ lpc' = "returned"
    /\ UNCHANGED << hash_globs, glob_status, stream, stopped, subscribed,
                    status_lock, hash_lock, lpc2, start_globs, event,
                    exclude_globs, call, ncalls, observed, processed, reg >>

\* lines 63-65: include every start glob, then enter the loop
WatchInclude ==
    /\ lpc = "start_include"
    /\ IF start_globs = {}
       THEN /\ lpc' = "next"
            /\ UNCHANGED << start_globs, subscribed >>
       ELSE /\ \E glob \in start_globs :
                 /\ subscribed' = subscribed \cup {glob}
                 /\ start_globs' = start_globs \ {glob}
            /\ lpc' = lpc
    /\ UNCHANGED << hash_globs, glob_status, watcher, stream, stopped,
                    status_lock, hash_lock, lpc2, event, exclude_globs, call,
                    ncalls, observed, processed, reg >>

\* line 67, while let Some(Ok(event)) = stream.next().await: the stream has
\* ended (None), or it completes a flush request, or it yields Some(Err(_)),
\* which does not match the pattern and ends the loop as None does, or it
\* yields an event
StreamNext ==
    /\ lpc = "next"
    /\ IF stopped
       THEN /\ lpc' = "returned"
            /\ UNCHANGED << stream, event, call >>
       ELSE /\ stream # << >>
            /\ stream' = Tail(stream)
            /\ IF Head(stream).kind = "flush"
               THEN /\ call' = [call EXCEPT ![Head(stream).from].pc =
                                       IF @ = "flush" THEN "flushed" ELSE @]
                    /\ UNCHANGED << lpc, event >>
               ELSE IF Head(stream).kind = "error"
               THEN /\ lpc' = "returned"
                    /\ UNCHANGED << event, call >>
               ELSE /\ event' = Head(stream)
                    /\ lpc' = "lock_status"
                    /\ UNCHANGED call
    /\ UNCHANGED << hash_globs, glob_status, watcher, stopped, subscribed,
                    status_lock, hash_lock, lpc2, start_globs, exclude_globs,
                    ncalls, observed, processed, reg >>

\* line 80: self.glob_status.lock()
WatchLockStatus ==
    /\ lpc = "lock_status"
    /\ status_lock = "free"
    /\ status_lock' = "watch"
    /\ lpc' = "lock_hash"
    /\ UNCHANGED << hash_globs, glob_status, watcher, stream, stopped, subscribed,
                    hash_lock, lpc2, start_globs, event, exclude_globs, call,
                    ncalls, observed, processed, reg >>

\* The guard of glob_status kept beyond the locked block.
DropGuards_KeepStatus == status_lock' = "watch" /\ hash_lock' = "free"

\* line 125: the locked block ends and both guards are dropped
DropGuards == status_lock' = "free" /\ hash_lock' = "free"

\* lines 81-125: self.hash_globs.lock(), the two for loops, both guards
\* dropped; or the panic of line 87, which poisons both mutexes
Reconcile ==
    /\ lpc = "lock_hash"
    /\ hash_lock = "free"
    /\ \E order \in Orders(DOMAIN glob_status) :
         IF Unwraps(order, repo_relative_paths(event.paths))
         THEN LET r == PanickedEvent(hash_globs, glob_status, event.paths, order)
              IN  /\ hash_globs' = r.hash_globs
                  /\ glob_status' = r.glob_status
                  /\ exclude_globs' = r.exclude_globs
                  /\ processed' = processed
                  /\ status_lock' = "poisoned"
                  /\ hash_lock' = "poisoned"
                  /\ lpc' = "panicked"
         ELSE LET r == ProcessEvent(hash_globs, glob_status, event.paths, order)
              IN  /\ hash_globs' = r.hash_globs
                  /\ glob_status' = r.glob_status
                  /\ exclude_globs' = r.exclude_globs
                  /\ processed' = processed + 1
                  /\ DropGuards
                  /\ lpc' = "exclude"
    /\ reg' = [h \in DOMAIN reg |-> [reg[h] EXCEPT !.fresh = FALSE]]
    /\ UNCHANGED << watcher, stream, stopped, subscribed, lpc2, start_globs,
                    event, call, ncalls, observed >>

\* lines 127-129: exclude every glob of exclude_globs, then poll again
WatchExclude ==
    /\ lpc = "exclude"
    /\ IF exclude_globs = << >>
       THEN /\ lpc' = "next"
            /\ event' = NoEvent
            /\ UNCHANGED << exclude_globs, subscribed >>
       ELSE /\ subscribed' = subscribed \ {Head(exclude_globs)}
            /\ exclude_globs' = Tail(exclude_globs)
            /\ UNCHANGED << lpc, event >>
    /\ UNCHANGED << hash_globs, glob_status, watcher, stream, stopped,
                    status_lock, hash_lock, lpc2, start_globs, call, ncalls,
                    observed, processed, reg >>

\* --------------------------------------------------- watch, called again
\* lines 46-52 of a call of watch made after another call took the watcher:
\* lock hash_globs (expect panics on a poisoned mutex), collect the globs
WatchAgainStart ==
    /\ lpc2 = "init"
    /\ ~ watcher
    /\ IF hash_lock = "poisoned"
       THEN lpc2' = "panicked"
       ELSE hash_lock = "free" /\ lpc2' = "take"
    /\ UNCHANGED << hash_globs, glob_status, watcher, stream, stopped, subscribed,
                    status_lock, hash_lock, lpc, start_globs, event,
                    exclude_globs, call, ncalls, observed, processed, reg >>

\* lines 54-60: the Option holds None: warn!("watcher already consumed") and
\* return (), as watch does when its loop ends
WatchAgainTake ==
    /\ lpc2 = "take"
    /\ lpc2' = "returned"
    /\ UNCHANGED << hash_globs, glob_status, watcher, stream, stopped, subscribed,
                    status_lock, hash_lock, lpc, start_globs, event,
                    exclude_globs, call, ncalls, observed, processed, reg >>

\* ------------------------------------------------------------ watch_globs
\* line 139: a caller task enters watch_globs and sends the flush request
WatchGlobsCall(c, hash, include, exclude) ==
    /\ call[c].pc \in {"idle", "done"}
    /\ ncalls < MaxCalls
    /\ ncalls' = ncalls + 1
    /\ call' = [call EXCEPT ![c] =
                  [op |-> "watch_globs", pc |-> "flush", hash |-> hash,
                   include |-> include, exclude |-> exclude, todo |-> include,
                   obs |-> observed]]
    /\ stream' = Append(stream, FlushRequest(c))
    /\ UNCHANGED << hash_globs, glob_status, watcher, stopped, subscribed,
                    status_lock, hash_lock, lpc, lpc2, start_globs, event,
                    exclude_globs, observed, processed, reg >>

\* lines 139 and 159, self.config.flush().await.unwrap(): the flush fails
\* because the stream is gone, and the caller task panics
FlushFailed(c) ==
    /\ call[c].pc = "flush"
    /\ ServerStopped
    /\ call' = [call EXCEPT ![c] = Panicked(c, "transport")]
    /\ UNCHANGED << hash_globs, glob_status, watcher, stream, stopped, subscribed,
                    status_lock, hash_lock, lpc, lpc2, start_globs, event,
                    exclude_globs, ncalls, observed, processed, reg >>

\* watch_globs not awaiting its flush.
WatchGlobsFlushed_NoWait(c) == call[c].pc \in {"flush", "flushed"}

\* line 139, self.config.flush().await: watch_globs goes on once its flush
\* request has completed
WatchGlobsFlushed(c) == call[c].pc = "flushed"

\* lines 141-143: one include command per glob of the include set; unwrap
\* panics when the command cannot be sent
WatchGlobsInclude(c) ==
    /\ call[c].op = "watch_globs"
    /\ WatchGlobsFlushed(c)
    /\ call[c].todo # {}
    /\ IF ServerStopped
       THEN /\ call' = [call EXCEPT ![c] = Panicked(c, "transport")]
            /\ UNCHANGED subscribed
       ELSE \E glob \in call[c].todo :
               /\ subscribed' = subscribed \cup {glob}
               /\ call' = [call EXCEPT ![c].todo = @ \ {glob}]
    /\ UNCHANGED << hash_globs, glob_status, watcher, stream, stopped,
                    status_lock, hash_lock, lpc, lpc2, start_globs, event,
                    exclude_globs, ncalls, observed, processed, reg >>

\* watch_globs replacing the entry of `hash` where line 146 extends it.
WatchGlobsStatus_Replace(c) ==
    /\ call[c].op = "watch_globs"
    /\ WatchGlobsFlushed(c)
    /\ call[c].todo = {}
    /\ status_lock = "free"
    /\ status_lock' = c
    /\ glob_status' = MapInsert(glob_status, call[c].hash, call[c].include)
    /\ call' = [call EXCEPT ![c].pc = "lock_hash"]
    /\ UNCHANGED << hash_globs, watcher, stream, stopped, subscribed, hash_lock,
                    lpc, lpc2, start_globs, event, exclude_globs, ncalls,
                    observed, processed, reg >>

\* lines 145-146: lock glob_status (expect panics on a poisoned mutex),
\* extend the entry of `hash`
WatchGlobsStatus(c) ==
    /\ call[c].op = "watch_globs"
    /\ WatchGlobsFlushed(c)
    /\ call[c].todo = {}
    /\ IF status_lock = "poisoned"
       THEN /\ call' = [call EXCEPT ![c] = Panicked(c, "poisoned")]
            /\ UNCHANGED << status_lock, glob_status >>
       ELSE /\ status_lock = "free"
            /\ status_lock' = c
            /\ glob_status' =
                 MapInsert(glob_status, call[c].hash,
                           (IF call[c].hash \in DOMAIN glob_status
                            THEN glob_status[call[c].hash] ELSE {})
                               \cup call[c].include)
            /\ call' = [call EXCEPT ![c].pc = "lock_hash"]
    /\ UNCHANGED << hash_globs, watcher, stream, stopped, subscribed, hash_lock,
                    lpc, lpc2, start_globs, event, exclude_globs, ncalls,
                    observed, processed, reg >>

\* lines 148-150: lock hash_globs, insert the Glob, drop both guards
WatchGlobsInsert(c) ==
    /\ call[c].op = "watch_globs"
    /\ call[c].pc = "lock_hash"
    /\ hash_lock = "free"
    /\ hash_globs' = MapInsert(hash_globs, call[c].hash,
                               [include |-> call[c].include,
                                exclude |-> call[c].exclude])
    /\ reg' = MapInsert(reg, call[c].hash,
                        [include |-> call[c].include, fresh |-> TRUE])
    /\ status_lock' = "free"
    /\ call' = [call EXCEPT ![c] = Idle]
    /\ UNCHANGED << glob_status, watcher, stream, stopped, subscribed, hash_lock,
                    lpc, lpc2, start_globs, event, exclude_globs, ncalls,
                    observed, processed >>

\* ---------------------------------------------------------- changed_globs
\* line 159: a caller task enters changed_globs and sends the flush request
ChangedGlobsCall(c, hash, candidates) ==
    /\ call[c].pc \in {"idle", "done"}
    /\ ncalls < MaxCalls
    /\ ncalls' = ncalls + 1
    /\ call' = [call EXCEPT ![c] =
                  [op |-> "changed_globs", pc |-> "flush", hash |-> hash,
                   candidates |-> candidates, obs |-> observed]]
    /\ stream' = Append(stream, FlushRequest(c))
    /\ UNCHANGED << hash_globs, glob_status, watcher, stopped, subscribed,
                    status_lock, hash_lock, lpc, lpc2, start_globs, event,
                    exclude_globs, observed, processed, reg >>

\* changed_globs without the retain of line 164.
changed_globs_NoRetain(globs, hash, candidates) == candidates

\* changed_globs returning nothing for a hash it does not know.
changed_globs_UnknownEmpty(globs, hash, candidates) ==
    IF hash \in DOMAIN globs
    THEN { c \in candidates : c \in globs[hash].include }
    ELSE {}

\* changed_globs with the test of line 164 negated.
changed_globs_Negated(globs, hash, candidates) ==
    IF hash \in DOMAIN globs
    THEN { c \in candidates : c \notin globs[hash].include }
    ELSE candidates

\* lines 161-168: the value changed_globs returns
changed_globs(globs, hash, candidates) ==
    IF hash \in DOMAIN globs
    THEN { c \in candidates : c \in globs[hash].include }
    ELSE candidates

\* changed_globs not awaiting its flush.
ChangedGlobsFlushed_NoWait(c) == call[c].pc \in {"flush", "flushed"}

\* line 159, self.config.flush().await: changed_globs goes on once its flush
\* request has completed
ChangedGlobsFlushed(c) == call[c].pc = "flushed"

\* line 161: self.hash_globs.lock().unwrap(), which panics on a poisoned mutex
ChangedGlobsLock(c) ==
    /\ call[c].op = "changed_globs"
    /\ ChangedGlobsFlushed(c)
    /\ IF hash_lock = "poisoned"
       THEN /\ call' = [call EXCEPT ![c] = Panicked(c, "poisoned")]
            /\ UNCHANGED hash_lock
       ELSE /\ hash_lock = "free"
            /\ hash_lock' = c
            /\ call' = [call EXCEPT ![c].pc = "locked"]
    /\ UNCHANGED << hash_globs, glob_status, watcher, stream, stopped,
                    subscribed, status_lock, lpc, lpc2, start_globs, event,
                    exclude_globs, ncalls, observed, processed, reg >>

\* changed_globs locking glob_status as well, after hash_globs.
ChangedGlobsRead_LockStatus(c) ==
    /\ call[c].op = "changed_globs"
    /\ call[c].pc = "locked"
    /\ status_lock = "free"
    /\ hash_lock' = "free"
    /\ call' = [call EXCEPT ![c] =
                  [op |-> "changed_globs", pc |-> "done", hash |-> call[c].hash,
                   candidates |-> call[c].candidates, obs |-> call[c].obs,
                   result |-> changed_globs(hash_globs, call[c].hash,
                                            call[c].candidates)]]
    /\ UNCHANGED << hash_globs, glob_status, watcher, stream, stopped,
                    subscribed, status_lock, lpc, lpc2, start_globs, event,
                    exclude_globs, ncalls, observed, processed, reg >>

\* lines 162-169: compute the result, return and drop the guard
ChangedGlobsRead(c) ==
    /\ call[c].op = "changed_globs"
    /\ call[c].pc = "locked"
    /\ hash_lock' = "free"
    /\ call' = [call EXCEPT ![c] =
                  [op |-> "changed_globs", pc |-> "done", hash |-> call[c].hash,
                   candidates |-> call[c].candidates, obs |-> call[c].obs,
                   result |-> changed_globs(hash_globs, call[c].hash,
                                            call[c].candidates)]]
    /\ UNCHANGED << hash_globs, glob_status, watcher, stream, stopped,
                    subscribed, status_lock, lpc, lpc2, start_globs, event,
                    exclude_globs, ncalls, observed, processed, reg >>

\* ------------------------------------------------------------------- Next
\* A session in which the stream stays open and every path is valid UTF-8.
Next ==
    \/ \E paths \in Batches : Observe(paths)
    \/ WatchStart
    \/ WatchTake
    \/ WatchInclude
    \/ StreamNext
    \/ WatchLockStatus
    \/ Reconcile
    \/ WatchExclude
    \/ \E hash \in HashIds, include \in IncludeSets, exclude \in ExcludeSets :
          WatchGlobsCall(Registrar, hash, include, exclude)
    \/ WatchGlobsInclude(Registrar)
    \/ WatchGlobsStatus(Registrar)
    \/ WatchGlobsInsert(Registrar)
    \/ \E hash \in HashIds, candidates \in CandidateSets :
          ChangedGlobsCall(Querier, hash, candidates)
    \/ ChangedGlobsLock(Querier)
    \/ ChangedGlobsRead(Querier)

Spec == Init /\ [][Next]_vars

\* The faults of a session: the stop token is triggered, the stream yields an
\* error, a path is not valid UTF-8, a command fails because the stream is
\* gone, watch is called again.
Faults ==
    \/ Cancel
    \/ ObserveError
    \/ \E paths \in RawBatches : Observe(paths)
    \/ \E c \in Callers : FlushFailed(c)
    \/ WatchAgainStart
    \/ WatchAgainTake

\* A session with faults.
SpecFaults == Init /\ [][Next \/ Faults]_vars

\* ================================================================== claims
Range(f) == { f[i] : i \in DOMAIN f }

\* No update of the two maps is in progress.
Quiescent == status_lock = "free"

\* The step in which the watch task reconciles `event` into the two maps.
ReconcileStep == lpc = "lock_hash" /\ lpc' = "exclude"

\* The step in which watch_globs inserts the Glob into hash_globs.
InsertStep == call[Registrar].pc # "idle" /\ call'[Registrar].pc = "idle"

\* The entry of hash h was deleted by a batch after its last registration.
Retired(h) == h \in DOMAIN reg /\ h \notin DOMAIN hash_globs

\* The step in which changed_globs reads hash_globs and returns.
ReadStep == call[Querier].pc # "done" /\ call'[Querier].pc = "done"

\* A changed_globs call has returned.
Returned == call[Querier].pc = "done"

\* The repo-relative paths of the event held by the watch task.
EventPaths == Range(repo_relative_paths(event.paths))

\* C1 - Invariant I1: whenever no update is in progress, pattern p is in
\* hash_globs[h].include if and only if h is in glob_status[p].
C1_BidirectionalConsistency ==
    Quiescent =>
        \A h \in Str, p \in Str :
            (h \in DOMAIN hash_globs /\ p \in hash_globs[h].include)
            <=> (p \in DOMAIN glob_status /\ h \in glob_status[p])

\* C2 - Invariant I2: whenever no update is in progress, no entry of
\* hash_globs has an empty include set and no entry of glob_status is empty.
C2_NoDanglingEntries ==
    Quiescent =>
        /\ \A h \in DOMAIN hash_globs : hash_globs[h].include # {}
        /\ \A k \in DOMAIN glob_status : glob_status[k] # {}

\* C3 - Retirement: when a batch with a path x is reconciled and x matches
\* both an include pattern p and an exclude pattern of a tracked hash h, then
\* afterwards p is not in h's include set, and h has no entry if that set
\* became empty.
C3_RetirementCorrectness ==
    [][ ReconcileStep =>
          \A h \in DOMAIN hash_globs : \A p \in hash_globs[h].include :
              (\E x \in EventPaths :
                    glob_match(p, x) /\ ExcludeMatches(hash_globs[h], x))
              => IF h \in DOMAIN hash_globs'
                 THEN /\ p \notin hash_globs'[h].include
                      /\ hash_globs'[h].include # {}
                 ELSE TRUE ]_vars

\* C4 - A batch none of whose paths matches an exclude pattern of a tracked
\* hash h leaves hash_globs[h] as it was, whatever its include patterns match.
C4_NonTriggeringChange ==
    [][ ReconcileStep =>
          \A h \in DOMAIN hash_globs :
              (~ \E x \in EventPaths : \E f \in hash_globs[h].exclude : glob_match(f, x))
              => /\ h \in DOMAIN hash_globs'
                 /\ hash_globs'[h] = hash_globs[h] ]_vars

\* C4 witness: a batch has just been reconciled one of whose paths matches an
\* include pattern of a hash registered before it, none matches its exclude
\* patterns, and the hash still has the include set it was registered with.
C4_Witness ==
    /\ lpc = "exclude"
    /\ \E h \in DOMAIN hash_globs :
         /\ ~ reg[h].fresh
         /\ hash_globs[h].include = reg[h].include
         /\ \E x \in EventPaths : \E p \in hash_globs[h].include : glob_match(p, x)
         /\ ~ \E x \in EventPaths : \E f \in hash_globs[h].exclude : glob_match(f, x)

\* C5 - changed_globs returns candidates \cap hash_globs[hash].include for a
\* hash that has an entry when it reads, and the candidates for one that has
\* none.
C5_ChangedGlobsResult ==
    [][ ReadStep =>
          LET q == call[Querier]
          IN  call'[Querier].result =
                  IF q.hash \in DOMAIN hash_globs
                  THEN q.candidates \cap hash_globs[q.hash].include
                  ELSE q.candidates ]_vars

\* C5 witness: a call for a tracked hash returned some but not all of its
\* candidates.
C5_Witness ==
    /\ Returned
    /\ call[Querier].hash \in DOMAIN hash_globs
    /\ call[Querier].result # {}
    /\ call[Querier].result # call[Querier].candidates
    /\ call[Querier].result =
           call[Querier].candidates \cap hash_globs[call[Querier].hash].include

\* C6 - changed_globs returns the candidates that have changed: for a tracked
\* hash whose include set holds every candidate, and with no change batch
\* ever observed, it returns no candidate.
C6_ReturnsChanged ==
    [][ ReadStep =>
          LET q == call[Querier]
          IN  ( /\ observed = 0
                /\ q.hash \in DOMAIN hash_globs
                /\ q.candidates \subseteq hash_globs[q.hash].include )
              => call'[Querier].result = {} ]_vars

\* C7 as stated - once a batch has deleted the entry of hash h, registered
\* with include set I, changed_globs(h, I) returns the empty set.
C7_FullyRetiredQueriesEmpty ==
    [][ ReadStep =>
          LET q == call[Querier]
          IN  ( /\ Retired(q.hash)
                /\ q.candidates = reg[q.hash].include )
              => call'[Querier].result = {} ]_vars

\* C7 amended - once a batch has deleted the entry of hash h, registered
\* with include set I, changed_globs(h, I) returns I.
C7_FullyRetiredQueriesAll ==
    [][ ReadStep =>
          LET q == call[Querier]
          IN  ( /\ Retired(q.hash)
                /\ q.candidates = reg[q.hash].include )
              => call'[Querier].result = reg[q.hash].include ]_vars

\* C7 witness: a call for a hash whose entry a batch deleted, with the
\* non-empty include set it was registered with, returned that set.
C7_Witness ==
    /\ Returned
    /\ Retired(call[Querier].hash)
    /\ call[Querier].candidates = reg[call[Querier].hash].include
    /\ call[Querier].candidates # {}
    /\ call[Querier].result = call[Querier].candidates

\* C8 as stated - reconciling a batch never adds to what changed_globs
\* returns for a tracked hash and a fixed candidate set, also when the batch
\* deletes the entry of the hash.
C8_QueryMonotone ==
    [][ ReconcileStep =>
          \A h \in DOMAIN hash_globs, C \in CandidateSets :
              changed_globs(hash_globs', h, C) \subseteq changed_globs(hash_globs, h, C) ]_vars

\* C8 amended - reconciling a batch never adds to what changed_globs returns
\* for a hash and a fixed candidate set as long as the hash keeps its entry.
C8_QueryMonotoneWhileTracked ==
    [][ ReconcileStep =>
          \A h \in DOMAIN hash_globs \cap DOMAIN hash_globs', C \in CandidateSets :
              changed_globs(hash_globs', h, C) \subseteq changed_globs(hash_globs, h, C) ]_vars

\* C8 witness: a batch has retired a pattern from a hash that keeps its
\* entry, so that a query now returns strictly less than at registration.
C8_Witness ==
    \E h \in DOMAIN hash_globs, C \in CandidateSets :
        /\ hash_globs[h].include \subseteq reg[h].include
        /\ changed_globs(hash_globs, h, C) # C \cap reg[h].include
        /\ changed_globs(hash_globs, h, C) \subseteq C \cap reg[h].include

\* C9 - when changed_globs reads hash_globs, every batch observed before the
\* call started has been reconciled into the two maps.
C9_FlushOrdering ==
    [][ ReadStep => processed >= call[Querier].obs ]_vars

\* C9 witness: a call that started after a batch was observed has returned.
C9_Witness ==
    /\ Returned
    /\ call[Querier].obs >= 1
    /\ processed >= call[Querier].obs

\* C10 - a batch observed before a watch_globs call started is never
\* reconciled against the entry that call installs: batches are reconciled
\* once each, in the order observed, and when the call inserts its entry
\* every batch observed before it started has already been reconciled.
C10_NoInheritedChange ==
    [][ /\ ReconcileStep => event.id = processed + 1 /\ processed' = event.id
        /\ InsertStep => call[Registrar].obs <= processed ]_vars

\* C10 witness: a call that started after a batch was observed has sent its
\* flush and its includes and is updating the maps, the batch reconciled.
C10_Witness ==
    /\ call[Registrar].pc = "lock_hash"
    /\ call[Registrar].obs >= 1
    /\ processed >= call[Registrar].obs
    /\ call[Registrar].hash \in DOMAIN glob_status

\* The step in which watch_globs extends its entry of glob_status.
StatusStep == call[Registrar].pc = "flushed" /\ call'[Registrar].pc = "lock_hash"

\* The step in which the watch task leaves the locked block, one way or the
\* other.
BatchStep == lpc = "lock_hash" /\ lpc' # "lock_hash"

\* C11 - Unsubscribe minimality: a batch puts a pattern on the list of
\* exclude commands only if, once the batch is reconciled, no hash has that
\* pattern in its include set any more.
C11_UnsubscribeMinimality ==
    [][ ReconcileStep =>
          \A i \in DOMAIN exclude_globs' : \A h \in DOMAIN hash_globs' :
              exclude_globs'[i] \notin hash_globs'[h].include ]_vars

\* C12 - Registration postcondition: when watch_globs(h, I, E) inserts its
\* entry and returns, h is in glob_status[p] for every p in I, hash_globs[h]
\* is exactly Glob{I, E}, and the entries of the other hashes are unchanged.
C12_RegistrationPostcondition ==
    [][ InsertStep =>
          LET r == call[Registrar]
          IN  /\ \A p \in r.include :
                    p \in DOMAIN glob_status' /\ r.hash \in glob_status'[p]
              /\ r.hash \in DOMAIN hash_globs'
              /\ hash_globs'[r.hash] = [include |-> r.include, exclude |-> r.exclude]
              /\ \A h \in DOMAIN hash_globs \ {r.hash} :
                    h \in DOMAIN hash_globs' /\ hash_globs'[h] = hash_globs[h] ]_vars

\* C13 - Transport errors are surfaced, not crashes: no call of watch_globs
\* or changed_globs ends in a panic because a command to the Event Source
\* could not be sent.
C13_TransportErrorsSurfaced ==
    \A c \in Callers : ~ (call[c].pc = "panicked" /\ call[c].why = "transport")

\* The paths of a batch that are valid UTF-8.
DecodablePaths(paths) == SelectSeq(paths, LAMBDA p : IsUtf8(p.rel))

\* C14 - Path-decoding errors are non-fatal: a batch with paths outside the
\* root or not valid UTF-8 is reconciled as the batch of its other paths, and
\* the loop goes on to its exclude commands and the next batch.
C14_PathDecodingNonFatal ==
    [][ BatchStep =>
          /\ lpc' = "exclude"
          /\ processed' = processed + 1
          /\ \E order \in Orders(DOMAIN glob_status) :
                LET r == ProcessEvent(hash_globs, glob_status,
                                      DecodablePaths(event.paths), order)
                IN  /\ hash_globs' = r.hash_globs
                    /\ glob_status' = r.glob_status ]_vars

\* C15 - Double-session start is reported: a call of watch made after the
\* watcher was taken does not return as a call whose loop has ended does; it
\* changes neither map, sends no command and processes no batch.
C15_DoubleSessionReported ==
    [][ lpc2' # lpc2 =>
          /\ lpc2' # "returned"
          /\ UNCHANGED << hash_globs, glob_status, subscribed, stream, processed >> ]_vars

\* C16 - Re-registration overwrite hazard: watch_globs leaves hash_globs[h]
\* with exactly the include set of the call, and no step other than the
\* reconciliation of a batch removes an association from glob_status, so
\* those of an earlier registration of h stay.
C16_ReRegistrationKeepsAssociations ==
    [][ /\ InsertStep =>
              hash_globs'[call[Registrar].hash].include = call[Registrar].include
        /\ ~ BatchStep =>
              \A k \in DOMAIN glob_status :
                  k \in DOMAIN glob_status' /\ glob_status[k] \subseteq glob_status'[k] ]_vars

\* C16 witness: a hash was registered again with no batch since, its entry
\* holds the include set of that call, and glob_status still associates it
\* with a pattern of an earlier registration that is not in that set.
C16_Witness ==
    /\ Quiescent
    /\ call[Registrar].pc = "idle"
    /\ \E h \in DOMAIN hash_globs \cap DOMAIN glob_status :
         /\ reg[h].fresh
         /\ hash_globs[h].include = reg[h].include
         /\ hash_globs[h].include \subseteq glob_status[h]
         /\ glob_status[h] # hash_globs[h].include

\* Task t holds one of the two mutexes.
HoldsLock(t) == status_lock = t \/ hash_lock = t

\* The watch task sends an include or an exclude command.
LoopSends ==
    \/ lpc = "exclude" /\ exclude_globs' # exclude_globs
    \/ lpc = "start_include" /\ start_globs' # start_globs

\* Caller task c sends a flush or an include command.
CallerSends(c) ==
    \/ call[c].pc # "flush" /\ call'[c].pc = "flush"
    \/ /\ call[c].op = "watch_globs"
       /\ call[c].pc = "flushed"
       /\ call'[c].pc = "flushed"
       /\ call'[c].todo # call[c].todo

\* C17 - No I/O under the lock: a task that sends a command to the Event
\* Source, or that waits for its flush to complete, holds neither mutex.
C17_NoIOUnderLock ==
    [][ /\ LoopSends => ~ HoldsLock("watch")
        /\ \A c \in Callers :
              (CallerSends(c) \/ call[c].pc = "flush") => ~ HoldsLock(c) ]_vars

\* C17 witness: the watch task is about to send the exclude commands of a
\* batch it has reconciled, and holds no mutex.
C17_Witness ==
    /\ lpc = "exclude"
    /\ exclude_globs # << >>
    /\ processed >= 1
    /\ ~ HoldsLock("watch")

\* C18 - Cooperative cancellation: once the stop token is triggered the
\* watch task leaves its loop only between batches, from stream.next(), with
\* no batch in hand.
C18_CooperativeCancellation ==
    [][ (stopped /\ ~ ServerStopped /\ ServerStopped') =>
            lpc = "next" /\ event = NoEvent ]_vars

\* C19 - Deadlock freedom of the index locks: whenever a mutex is held, a
\* task holding one can take its next step: changed_globs, holding
\* hash_globs, reads and returns; or hash_globs is free and watch_globs or
\* the watch task (Reconcile needs nothing else), holding glob_status, takes
\* it.  Each mutex is held only at the position where its holder needs
\* nothing or hash_globs next.
C19_LockDeadlockFree ==
    /\ (status_lock \in Callers \cup {"watch"} \/ hash_lock \in Callers) =>
           \/ hash_lock = Querier /\ ENABLED ChangedGlobsRead(Querier)
           \/ hash_lock = "free" /\ ENABLED WatchGlobsInsert(Registrar)
           \/ hash_lock = "free" /\ lpc = "lock_hash"
    /\ hash_lock = Querier => call[Querier].pc = "locked"
    /\ status_lock = Registrar => call[Registrar].pc = "lock_hash"
    /\ status_lock = "watch" => lpc = "lock_hash"

\* C19 witness: the watch task holds glob_status and waits for hash_globs,
\* which changed_globs holds.
C19_Witness ==
    /\ status_lock = "watch"
    /\ hash_lock = Querier

\* No watch_globs call and no batch is in flight.
NothingInFlight ==
    /\ call[Registrar].pc = "idle"
    /\ lpc = "next"
    /\ \A i \in DOMAIN stream : stream[i].kind # "event"

\* C20 - Tracked patterns stay subscribed: when no watch_globs call and no
\* batch is in flight, every pattern in the include set of a hash is
\* subscribed at the Event Source.
C20_TrackedStaySubscribed ==
    NothingInFlight =>
        \A h \in DOMAIN hash_globs : hash_globs[h].include \subseteq subscribed

====
